---------------------------- MODULE Spec2Model ----------------------------
(***************************************************************************)
(* Model of package orderedmap (src/orderedmap.go): an insertion-ordered   *)
(* map built from a Go map (mapper) and a container/list doubly linked     *)
(* list (lister).                                                          *)
(*                                                                         *)
(* The list is modelled as Go's container/list implements it: a ring       *)
(* through a sentinel root element, every element holding next, prev and   *)
(* list (its owning list, nil once removed) besides its Value.  The        *)
(* *ElemVal a list element points to is never shared, so its Key and Value *)
(* are kept in the element's heap cell.                                    *)
(***************************************************************************)
EXTENDS Integers, Sequences, FiniteSets, TLC

\* ------------------------------------------------------------------ bounds
\* Number of list elements ever allocated by PushBack in one behaviour.
MaxElems == 3

\* Number of calls the two threads make in one behaviour.
MaxCalls == 4

\* Number of entries of the map the channel iterator runs over.
MaxItems == 34

Keys == {"a", "b", "c"}
Values == {"v1", "v2"}

\* ------------------------------------------------------- program constants
\* A nil pointer (*list.Element) and the address of the list's sentinel.
Nil == -1
Root == 0
\* The nil interface{} value Get returns for a missing key.
NilVal == "nil"
\* Element.list: the owning list, or nil.
Lister == "lister"
NilList == "nil"
\* The capacity of the channel Iter() makes.
chbufSize == 32
\* A nil *Element (the cursor type of this package).
NilElement == [elem |-> Nil, Key |-> "", Value |-> NilVal]
\* The loops of two traversals running over one map.
Loops == {1, 2}
\* The goroutines calling Set and Delete on one map without a lock.
Threads == {1, 2}
\* A goroutine in no call; its locals key, value, elem are dead.
Idle == [pc |-> "idle", key |-> "", value |-> NilVal, elem |-> Nil]

VARIABLES
    mapper,      \* m.mapper: key -> pointer to its list element
    heap,        \* the list elements ever allocated, heap[Root] the sentinel
    len,         \* m.lister.len
    lastOp,      \* the last call made on the map, with what it returned
    insertedAt,  \* history: when each present key was inserted (0: absent)
    lastSet,     \* history: the value of the latest Set of each present key
    clock,       \* history: number of insertions so far
    rewritten,   \* history: present keys Set again since their insertion
    pc,          \* the caller's traversal loop: "build", "at", "held", "done"
    cur,         \* e, the loop's current *Element
    next,        \* the *Element captured by next = e.Next(), nil if none
    start,       \* what a traversal would have yielded when the loop began
    visited,     \* the <<Key, Value>> pairs the loop has been positioned at
    dels,        \* the keys of the entries deleted during the loop
    otherDel,    \* an entry other than the current one was deleted
    heldHit,     \* the entry of a captured next was deleted before the step
    curGone,     \* the entry of the loop's current element was deleted
    curs,        \* two traversals: the *Element of each loop
    seen,        \* two traversals: the pairs each loop has been positioned at
    tpc,         \* two traversals: each loop "idle", "run" or "done"
    thr,         \* two threads: the statement each is at, and its locals
    overlapped,  \* two threads: a call began while another was running
    ncalls,      \* two threads: the calls begun so far
    ch,          \* Iter: the items in the channel's buffer
    closed,      \* Iter: close(ch) was called
    ppc,         \* Iter: the statement the producer goroutine is at
    pe,          \* Iter: the producer's e (*list.Element)
    pnext,       \* Iter: the producer's next (*list.Element)
    cpc,         \* the consumer: "fill", "range", "del", "gone" or "end"
    recvd,       \* the items the consumer has received
    chstart      \* what a traversal would have yielded when Iter was called

mapVars == <<mapper, heap, len>>
histVars == <<insertedAt, lastSet, clock, rewritten>>
callVars == <<lastOp, insertedAt, lastSet, clock, rewritten>>
iterVars == <<pc, cur, next, start, visited, dels, otherDel, heldHit>>
\* The variables of the other specifications, which Spec and SpecIter leave.
twoVars == <<curs, seen, tpc>>
\* The variables of the specifications after SpecMisuse.
raceVars == <<thr, overlapped, ncalls>>
prodVars == <<ch, closed, ppc, pe, pnext>>
chanVars == <<ch, closed, ppc, pe, pnext, cpc, recvd, chstart>>
laterVars == <<twoVars, raceVars, chanVars>>
\* The variables of the other specifications, which Spec and SpecIter leave.
otherVars == <<curGone, laterVars>>
vars == <<mapper, heap, len, lastOp, insertedAt, lastSet, clock, rewritten,
          pc, cur, next, start, visited, dels, otherDel, heldHit, curGone,
          curs, seen, tpc, thr, overlapped, ncalls,
          ch, closed, ppc, pe, pnext, cpc, recvd, chstart>>

\* --------------------------------------------------------- container/list
\* A freshly allocated list.Element holding &ElemVal{key, value}.
NewListElem(key, value) ==
    [next |-> Nil, prev |-> Nil, list |-> NilList, Key |-> key, Value |-> value]

\* list.New(): root.next = root.prev = &root, len = 0.
ListNew == [i \in {Root} |->
              [next |-> Root, prev |-> Root, list |-> NilList,
               Key |-> "", Value |-> NilVal]]

\* Mutant of ListInsert: e is linked before at.
ListInsertBefore(h, e, at) ==
    LET to == h[at].prev
        h1 == [h EXCEPT ![e].prev = to]
        h2 == [h1 EXCEPT ![e].next = h1[to].next]
        h3 == [h2 EXCEPT ![h2[e].prev].next = e]
        h4 == [h3 EXCEPT ![h3[e].next].prev = e]
    IN  [h4 EXCEPT ![e].list = Lister]

\* List.insert(e, at): links e after at.
ListInsert(h, e, at) ==
    LET h1 == [h EXCEPT ![e].prev = at]
        h2 == [h1 EXCEPT ![e].next = h1[at].next]
        h3 == [h2 EXCEPT ![h2[e].prev].next = e]
        h4 == [h3 EXCEPT ![h3[e].next].prev = e]
    IN  [h4 EXCEPT ![e].list = Lister]

\* The address of the next element allocated: elements are numbered in
\* the order of their allocation.
NewPtr(h) == Cardinality(DOMAIN h)

\* Mutant of ListPushBack: the element is inserted at the front.
ListPushFront(h, key, value) ==
    LET e  == NewPtr(h)
        h0 == [i \in DOMAIN h \cup {e} |->
                 IF i = e THEN NewListElem(key, value) ELSE h[i]]
    IN  ListInsert(h0, e, Root)

\* List.PushBack(v): allocates an element and inserts it after root.prev.
ListPushBack(h, key, value) ==
    LET e  == NewPtr(h)
        h0 == [i \in DOMAIN h \cup {e} |->
                 IF i = e THEN NewListElem(key, value) ELSE h[i]]
    IN  ListInsert(h0, e, h0[Root].prev)

\* Mutant of ListUnlink: the predecessor's next is left pointing at e.
ListUnlinkKeepsForwardLink(h, e) ==
    LET h2 == [h EXCEPT ![h[e].next].prev = h[e].prev]
        h3 == [h2 EXCEPT ![e].next = Nil]
        h4 == [h3 EXCEPT ![e].prev = Nil]
    IN  [h4 EXCEPT ![e].list = NilList]

\* Mutant of ListUnlink: e keeps its next, prev and list.
ListUnlinkKeepsLinks(h, e) ==
    LET h1 == [h EXCEPT ![h[e].prev].next = h[e].next]
    IN  [h1 EXCEPT ![h1[e].next].prev = h1[e].prev]

\* List.remove(e): unlinks e and clears its next, prev and list.
ListUnlink(h, e) ==
    LET h1 == [h EXCEPT ![h[e].prev].next = h[e].next]
        h2 == [h1 EXCEPT ![h1[e].next].prev = h1[e].prev]
        h3 == [h2 EXCEPT ![e].next = Nil]
        h4 == [h3 EXCEPT ![e].prev = Nil]
    IN  [h4 EXCEPT ![e].list = NilList]

\* List.Remove(e): removes e if it is an element of the list.
ListRemove(h, e) == IF h[e].list = Lister THEN ListUnlink(h, e) ELSE h

\* Mutant of ListRemoveLen: the length is not decremented.
ListRemoveLenKept(h, n, e) == n

\* The change of List.len made by List.Remove(e).
ListRemoveLen(h, n, e) == IF h[e].list = Lister THEN n - 1 ELSE n

\* Mutant of ListFront: the length is not looked at.
ListFrontOfRing(h, n) == h[Root].next

\* List.Front(): nil for an empty list, else root.next.
ListFront(h, n) == IF n = 0 THEN Nil ELSE h[Root].next

\* (*list.Element).Next(): nil when e is in no list or is the last element.
ListElemNext(h, e) ==
    IF h[e].list # NilList /\ h[e].next # Root THEN h[e].next ELSE Nil

\* ------------------------------------------------------------- orderedmap
\* OrderedMap.Len
Len_(h, n) == n
MapLen == Len_(heap, len)

\* OrderedMap.Get: (nil, false) for a missing key, else the stored value.
GetIn(mp, h, key) ==
    IF key \notin DOMAIN mp THEN <<NilVal, FALSE>>
    ELSE <<h[mp[key]].Value, TRUE>>
MapGet(key) == GetIn(mapper, heap, key)

\* The *Element wrapping list element p (nil for a nil p).
MakeElement(h, p) ==
    IF p = Nil THEN NilElement
    ELSE [elem |-> p, Key |-> h[p].Key, Value |-> h[p].Value]

\* OrderedMap.First
FirstIn(h, n) == MakeElement(h, ListFront(h, n))
MapFirst == FirstIn(heap, len)

\* Mutant of ElementNextIn: the new Element keeps the old list element.
ElementNextStale(h, e) ==
    LET p == ListElemNext(h, e.elem)
    IN  IF p = Nil THEN NilElement
        ELSE [elem |-> e.elem, Key |-> h[p].Key, Value |-> h[p].Value]

\* Element.Next
ElementNextIn(h, e) == MakeElement(h, ListElemNext(h, e.elem))
ElementNext(e) == ElementNextIn(heap, e)

\* for e := m.First(); e != nil; e = e.Next(): the <<Key, Value>> pairs
\* the loop yields (fuel bounds the walk by the number of elements).
RECURSIVE WalkFrom(_, _, _)
WalkFrom(h, e, fuel) ==
    IF e = NilElement \/ fuel = 0 THEN <<>>
    ELSE <<<<e.Key, e.Value>>>> \o WalkFrom(h, ElementNextIn(h, e), fuel - 1)

TraversalIn(h, n) == WalkFrom(h, FirstIn(h, n), Cardinality(DOMAIN h))
Traversal == TraversalIn(heap, len)

\* ---------------------------------------------------------------- history
\* What the caller has asked for so far, kept apart from the structures.
Present == {k \in Keys : insertedAt[k] # 0}

HistSet(key, value) ==
    /\ lastSet' = [lastSet EXCEPT ![key] = value]
    /\ IF insertedAt[key] = 0
       THEN /\ clock' = clock + 1
            /\ insertedAt' = [insertedAt EXCEPT ![key] = clock + 1]
            /\ UNCHANGED rewritten
       ELSE /\ rewritten' = rewritten \cup {key}
            /\ UNCHANGED <<clock, insertedAt>>

HistDelete(key) ==
    /\ lastSet' = [lastSet EXCEPT ![key] = NilVal]
    /\ insertedAt' = [insertedAt EXCEPT ![key] = 0]
    /\ rewritten' = rewritten \ {key}
    /\ UNCHANGED clock

\* The present keys, oldest insertion first.
RECURSIVE OldestFirst(_)
OldestFirst(S) ==
    IF S = {} THEN <<>>
    ELSE LET k == CHOOSE x \in S : \A y \in S : insertedAt[x] <= insertedAt[y]
         IN  <<k>> \o OldestFirst(S \ {k})

\* ---------------------------------------------------------------- actions
\* A call as the caller sees it: for Get, value and found are the results;
\* for Set and Delete, found tells whether the key was present at the call.
Call(op, key, value, found) ==
    [op |-> op, key |-> key, value |-> value, found |-> found]

\* New()
Init ==
    /\ mapper = <<>>
    /\ heap = ListNew
    /\ len = 0
    /\ lastOp = Call("New", "", NilVal, FALSE)
    /\ insertedAt = [k \in Keys |-> 0]
    /\ lastSet = [k \in Keys |-> NilVal]
    /\ clock = 0
    /\ rewritten = {}
    /\ pc = "build"
    /\ cur = NilElement
    /\ next = NilElement
    /\ start = <<>>
    /\ visited = <<>>
    /\ dels = {}
    /\ otherDel = FALSE
    /\ heldHit = FALSE
    /\ curGone = FALSE
    /\ curs = [c \in Loops |-> NilElement]
    /\ seen = [c \in Loops |-> <<>>]
    /\ tpc = [c \in Loops |-> "idle"]
    /\ thr = [t \in Threads |-> Idle]
    /\ overlapped = FALSE
    /\ ncalls = 0
    /\ ch = <<>>
    /\ closed = FALSE
    /\ ppc = "none"
    /\ pe = Nil
    /\ pnext = Nil
    /\ cpc = "fill"
    /\ recvd = <<>>
    /\ chstart = <<>>

\* Mutant of SetInsert: the new element is not registered in mapper.
SetInsertNoIndex(key, value) ==
    /\ key \notin DOMAIN mapper
    /\ Cardinality(DOMAIN heap) <= MaxElems
    /\ heap' = ListPushBack(heap, key, value)
    /\ len' = len + 1
    /\ UNCHANGED mapper

\* OrderedMap.Set, the branch of a missing key.
SetAbsent(key, value) ==
    /\ key \notin DOMAIN mapper
    /\ heap' = ListPushBack(heap, key, value)
    /\ len' = len + 1
    /\ mapper' = [k \in DOMAIN mapper \cup {key} |->
                    IF k = key THEN NewPtr(heap) ELSE mapper[k]]

\* The same, while list elements may still be allocated.
SetInsert(key, value) ==
    /\ Cardinality(DOMAIN heap) <= MaxElems
    /\ SetAbsent(key, value)

\* Mutant of SetUpdate: the update is counted as an insertion.
SetUpdateCounts(key, value) ==
    /\ key \in DOMAIN mapper
    /\ heap' = [heap EXCEPT ![mapper[key]].Value = value]
    /\ len' = len + 1
    /\ UNCHANGED mapper

\* Mutant of SetUpdate: the new value is not stored.
SetUpdateDropsValue(key, value) ==
    /\ key \in DOMAIN mapper
    /\ UNCHANGED <<mapper, heap, len>>

\* Mutant of SetUpdate: the updated element is moved to the back.
SetUpdateMovesToBack(key, value) ==
    /\ key \in DOMAIN mapper
    /\ LET h1 == ListUnlink(heap, mapper[key])
           h2 == ListInsert(h1, mapper[key], h1[Root].prev)
       IN  heap' = [h2 EXCEPT ![mapper[key]].Value = value]
    /\ UNCHANGED <<mapper, len>>

\* OrderedMap.Set, the branch of a key already in the map.
SetUpdate(key, value) ==
    /\ key \in DOMAIN mapper
    /\ heap' = [heap EXCEPT ![mapper[key]].Value = value]
    /\ UNCHANGED <<mapper, len>>

SetCode(key, value) == SetInsert(key, value) \/ SetUpdate(key, value)

\* Mutant of DeleteFound: the key is left in mapper.
DeleteFoundKeepsIndex(key) ==
    /\ key \in DOMAIN mapper
    /\ heap' = ListRemove(heap, mapper[key])
    /\ len' = ListRemoveLen(heap, len, mapper[key])
    /\ UNCHANGED mapper

\* OrderedMap.Delete, the key being in the map.
DeleteFound(key) ==
    /\ key \in DOMAIN mapper
    /\ heap' = ListRemove(heap, mapper[key])
    /\ len' = ListRemoveLen(heap, len, mapper[key])
    /\ mapper' = [k \in DOMAIN mapper \ {key} |-> mapper[k]]

\* Mutant of DeleteMissing: the length is decremented all the same.
DeleteMissingDecrements(key) ==
    /\ key \notin DOMAIN mapper
    /\ len' = len - 1
    /\ UNCHANGED <<mapper, heap>>

\* OrderedMap.Delete, the key missing: the early return.
DeleteMissing(key) ==
    /\ key \notin DOMAIN mapper
    /\ UNCHANGED mapVars

DeleteCode(key) == DeleteFound(key) \/ DeleteMissing(key)

\* OrderedMap.Get: reads only.
GetCode(key) == UNCHANGED mapVars

\* m.Set(key, value)
Set(key, value) ==
    /\ SetCode(key, value)
    /\ HistSet(key, value)
    /\ lastOp' = Call("Set", key, value, key \in Present)

\* m.Delete(key)
Delete(key) ==
    /\ DeleteCode(key)
    /\ HistDelete(key)
    /\ lastOp' = Call("Delete", key, NilVal, key \in Present)

\* value, exist := m.Get(key)
Get(key) ==
    /\ GetCode(key)
    /\ lastOp' = Call("Get", key, MapGet(key)[1], MapGet(key)[2])
    /\ UNCHANGED histVars

\* Calls on the map, no traversal running.
Next ==
    \/ \E key \in Keys, value \in Values :
          Set(key, value) /\ UNCHANGED <<iterVars, otherVars>>
    \/ \E key \in Keys : Delete(key) /\ UNCHANGED <<iterVars, otherVars>>
    \/ \E key \in Keys : Get(key) /\ UNCHANGED <<iterVars, otherVars>>

Spec == Init /\ [][Next]_vars

\* ------------------------------------------------- traversal with deletes
\* The caller's loops of the package documentation, over a map built by
\* any calls of Set and Delete:
\*     for e := m.First(); e != nil; e = e.Next() { ... }
\*     for e := m.First(); e != nil; e = next { next = e.Next(); ... }
\* with calls of Delete in the loop's body.

\* The pair a loop body reads from its element.
Pair(el) == <<el.Key, el.Value>>

\* Positions the loop at el: the body runs for a non-nil el, else the loop
\* is over.
Position(el) ==
    /\ cur' = el
    /\ next' = NilElement
    /\ visited' = IF el = NilElement THEN visited ELSE Append(visited, Pair(el))
    /\ pc' = IF el = NilElement THEN "done" ELSE "at"

\* m.Set(key, value) before the loop.
BuildSet(key, value) ==
    /\ pc = "build"
    /\ SetCode(key, value)
    /\ UNCHANGED <<callVars, iterVars>>

\* m.Delete(key) before the loop.
BuildDelete(key) ==
    /\ pc = "build"
    /\ DeleteCode(key)
    /\ UNCHANGED <<callVars, iterVars>>

\* e := m.First()
IterFirst ==
    /\ pc = "build"
    /\ start' = Traversal
    /\ Position(MapFirst)
    /\ UNCHANGED <<mapVars, callVars, dels, otherDel, heldHit>>

\* e = e.Next(): the step of the plain loop.
IterAdvance ==
    /\ pc = "at"
    /\ Position(ElementNext(cur))
    /\ UNCHANGED <<mapVars, callVars, start, dels, otherDel, heldHit>>

\* next = e.Next(): the capture of the deleting loop.
IterCapture ==
    /\ pc = "at"
    /\ next' = ElementNext(cur)
    /\ pc' = "held"
    /\ UNCHANGED <<mapVars, callVars, cur, start, visited, dels, otherDel, heldHit>>

\* e = next: the step of the deleting loop.
IterStep ==
    /\ pc = "held"
    /\ Position(next)
    /\ UNCHANGED <<mapVars, callVars, start, dels, otherDel, heldHit>>

\* m.Delete(key) in the loop's body: of the current entry once next is
\* captured, of any other entry at any time.
IterDelete(key) ==
    /\ pc \in {"at", "held"}
    /\ pc = "at" => key # cur.Key
    /\ DeleteCode(key)
    /\ LET hit == \E i \in 1..Len(Traversal) : Traversal[i][1] = key
       IN  /\ dels' = IF hit THEN dels \cup {key} ELSE dels
           /\ otherDel' = (otherDel \/ (hit /\ key # cur.Key))
           /\ heldHit' = (heldHit \/ (hit /\ pc = "held" /\ next # NilElement
                                         /\ key = next.Key))
    /\ UNCHANGED <<callVars, pc, cur, next, start, visited>>

IterNext ==
    \/ \E key \in Keys, value \in Values :
          BuildSet(key, value) /\ UNCHANGED otherVars
    \/ \E key \in Keys : BuildDelete(key) /\ UNCHANGED otherVars
    \/ IterFirst /\ UNCHANGED otherVars
    \/ IterAdvance /\ UNCHANGED otherVars
    \/ IterCapture /\ UNCHANGED otherVars
    \/ IterStep /\ UNCHANGED otherVars
    \/ \E key \in Keys : IterDelete(key) /\ UNCHANGED otherVars

SpecIter == Init /\ [][IterNext]_vars

\* ------------------------------------------- traversal against the rule
\* The same loops, the caller also deleting the current entry before it
\* has captured next: the misuse the package documentation warns of.

\* The key is one of an entry of the map.
InMap(key) == \E i \in 1..Len(Traversal) : Traversal[i][1] = key

\* m.Delete(key) in the loop's body, of any entry at any time.
MisuseDelete(key) ==
    /\ pc \in {"at", "held"}
    /\ DeleteCode(key)
    /\ dels' = IF InMap(key) THEN dels \cup {key} ELSE dels
    /\ otherDel' = (otherDel \/ (InMap(key) /\ key # cur.Key))
    /\ heldHit' = (heldHit \/ (InMap(key) /\ pc = "held" /\ next # NilElement
                                  /\ key = next.Key))
    /\ curGone' = (curGone \/ (InMap(key) /\ key = cur.Key))
    /\ UNCHANGED <<callVars, pc, cur, next, start, visited, laterVars>>

MisuseNext ==
    \/ \E key \in Keys, value \in Values :
          BuildSet(key, value) /\ UNCHANGED otherVars
    \/ \E key \in Keys : BuildDelete(key) /\ UNCHANGED otherVars
    \/ IterFirst /\ UNCHANGED otherVars
    \/ IterAdvance /\ curGone' = FALSE /\ UNCHANGED laterVars
    \/ IterCapture /\ UNCHANGED otherVars
    \/ IterStep /\ curGone' = (heldHit /\ next # NilElement)
                /\ UNCHANGED laterVars
    \/ \E key \in Keys : MisuseDelete(key)

SpecMisuse == Init /\ [][MisuseNext]_vars

\* ------------------------------------------------ a cursor and its entry
\* One loop, the caller calling Set and assigning to e.Value in its body.

\* m.Set(key, value) in the loop's body.
SnapSet(key, value) ==
    /\ pc = "at"
    /\ SetCode(key, value)
    /\ UNCHANGED <<callVars, iterVars, otherVars>>

\* Mutant of SnapAssign: Element holds the list element's own *ElemVal.
SnapAssignWritesThrough(value) ==
    /\ pc = "at"
    /\ cur' = [cur EXCEPT !.Value = value]
    /\ heap' = [heap EXCEPT ![cur.elem].Value = value]
    /\ UNCHANGED <<mapper, len, callVars, pc, next, start, visited, dels,
                   otherDel, heldHit, otherVars>>

\* e.Value = value: writes the ElemVal allocated by First() or Next().
SnapAssign(value) ==
    /\ pc = "at"
    /\ cur' = [cur EXCEPT !.Value = value]
    /\ UNCHANGED <<mapVars, callVars, pc, next, start, visited, dels,
                   otherDel, heldHit, otherVars>>

SnapNext ==
    \/ \E key \in Keys, value \in Values :
          BuildSet(key, value) /\ UNCHANGED otherVars
    \/ \E key \in Keys : BuildDelete(key) /\ UNCHANGED otherVars
    \/ IterFirst /\ UNCHANGED otherVars
    \/ IterAdvance /\ UNCHANGED otherVars
    \/ \E key \in Keys, value \in Values : SnapSet(key, value)
    \/ \E value \in Values : SnapAssign(value)

SpecSnap == Init /\ [][SnapNext]_vars

\* --------------------------------------------------------- two traversals
\* Two loops for e := m.First(); e != nil; e = e.Next() running over one
\* map, their steps interleaved, the map built before the first of them
\* starts.  A loop may be started again at any time.

\* Positions loop c at el.
TwoPosition(c, el, before) ==
    /\ curs' = [curs EXCEPT ![c] = el]
    /\ seen' = [seen EXCEPT ![c] = IF el = NilElement THEN before
                                   ELSE Append(before, Pair(el))]
    /\ tpc' = [tpc EXCEPT ![c] = IF el = NilElement THEN "done" ELSE "run"]

\* m.Set(key, value) before the loops.
TwoSet(key, value) ==
    /\ \A c \in Loops : tpc[c] = "idle"
    /\ BuildSet(key, value)
    /\ UNCHANGED <<curGone, laterVars>>

\* m.Delete(key) before the loops.
TwoDelete(key) ==
    /\ \A c \in Loops : tpc[c] = "idle"
    /\ BuildDelete(key)
    /\ UNCHANGED <<curGone, laterVars>>

\* e := m.First() of loop c.
TwoFirst(c) ==
    /\ TwoPosition(c, MapFirst, <<>>)
    /\ UNCHANGED <<mapVars, callVars, iterVars, curGone, raceVars, chanVars>>

\* Mutant of TwoNext: the map holds one position, which every loop reads.
TwoNextShared(c) ==
    /\ tpc[c] = "run"
    /\ LET el == ElementNext(curs[c])
       IN  /\ curs' = [d \in Loops |-> IF tpc[d] = "run" THEN el ELSE curs[d]]
           /\ seen' = [seen EXCEPT ![c] = IF el = NilElement THEN @
                                          ELSE Append(@, Pair(el))]
           /\ tpc' = [d \in Loops |->
                        IF tpc[d] = "run" /\ el = NilElement THEN "done"
                        ELSE tpc[d]]
    /\ UNCHANGED <<mapVars, callVars, iterVars, curGone, raceVars, chanVars>>

\* e = e.Next() of loop c.
TwoNext(c) ==
    /\ tpc[c] = "run"
    /\ TwoPosition(c, ElementNext(curs[c]), seen[c])
    /\ UNCHANGED <<mapVars, callVars, iterVars, curGone, raceVars, chanVars>>

TwoStepNext ==
    \/ \E key \in Keys, value \in Values : TwoSet(key, value)
    \/ \E key \in Keys : TwoDelete(key)
    \/ \E c \in Loops : TwoFirst(c)
    \/ \E c \in Loops : TwoNext(c)

SpecTwo == Init /\ [][TwoStepNext]_vars

\* ------------------------------------------------------------ two threads
\* Two goroutines calling Set and Delete on one map with no lock, their
\* statements interleaved.  Each statement of Set and Delete is one step;
\* the runtime may also end the program ("fatal error: concurrent map
\* writes") when a goroutine writes the map while the other is in a call.

\* Thread t is at statement p of a call with these locals.
At(p, key, value, elem) == [pc |-> p, key |-> key, value |-> value, elem |-> elem]

\* List elements PushBack may still allocate, those about to be counted.
RoomToPush ==
    Cardinality(DOMAIN heap)
      + Cardinality({t \in Threads : thr[t].pc = "push"}) <= MaxElems

\* A call begins: it overlaps if another thread is in one.
Begin(t) ==
    /\ thr[t].pc = "idle"
    /\ ncalls < MaxCalls
    /\ ncalls' = ncalls + 1
    /\ overlapped' = (overlapped \/ \E u \in Threads \ {t} : thr[u].pc # "idle")

\* Set: elem, exist := m.mapper[key]
RaceSetLookup(t, key, value) ==
    /\ Begin(t)
    /\ key \notin DOMAIN mapper => RoomToPush
    /\ thr' = [thr EXCEPT ![t] =
                 IF key \in DOMAIN mapper THEN At("write", key, value, mapper[key])
                 ELSE At("push", key, value, Nil)]
    /\ UNCHANGED mapVars

\* Set: elem = m.lister.PushBack(&ElemVal{key, value})
RaceSetPush(t) ==
    /\ thr[t].pc = "push"
    /\ heap' = ListPushBack(heap, thr[t].key, thr[t].value)
    /\ len' = len + 1
    /\ thr' = [thr EXCEPT ![t] = At("store", thr[t].key, thr[t].value, NewPtr(heap))]
    /\ UNCHANGED <<mapper, overlapped, ncalls>>

\* Mutant of RaceSetStore: the element is not registered in mapper.
RaceSetStoreSkipped(t) ==
    /\ thr[t].pc = "store"
    /\ thr' = [thr EXCEPT ![t] = Idle]
    /\ UNCHANGED <<mapVars, overlapped, ncalls>>

\* Set: m.mapper[key] = elem
RaceSetStore(t) ==
    /\ thr[t].pc = "store"
    /\ mapper' = [k \in DOMAIN mapper \cup {thr[t].key} |->
                    IF k = thr[t].key THEN thr[t].elem ELSE mapper[k]]
    /\ thr' = [thr EXCEPT ![t] = Idle]
    /\ UNCHANGED <<heap, len, overlapped, ncalls>>

\* Set: elem.Value.(*ElemVal).Value = value
RaceSetWrite(t) ==
    /\ thr[t].pc = "write"
    /\ heap' = [heap EXCEPT ![thr[t].elem].Value = thr[t].value]
    /\ thr' = [thr EXCEPT ![t] = Idle]
    /\ UNCHANGED <<mapper, len, overlapped, ncalls>>

\* Delete: elem, exist := m.mapper[key], with the early return.
RaceDeleteLookup(t, key) ==
    /\ Begin(t)
    /\ thr' = [thr EXCEPT ![t] =
                 IF key \in DOMAIN mapper THEN At("remove", key, NilVal, mapper[key])
                 ELSE Idle]
    /\ UNCHANGED mapVars

\* Delete: m.lister.Remove(elem)
RaceDeleteRemove(t) ==
    /\ thr[t].pc = "remove"
    /\ heap' = ListRemove(heap, thr[t].elem)
    /\ len' = ListRemoveLen(heap, len, thr[t].elem)
    /\ thr' = [thr EXCEPT ![t] = At("drop", thr[t].key, NilVal, thr[t].elem)]
    /\ UNCHANGED <<mapper, overlapped, ncalls>>

\* Delete: delete(m.mapper, key)
RaceDeleteDrop(t) ==
    /\ thr[t].pc = "drop"
    /\ mapper' = [k \in DOMAIN mapper \ {thr[t].key} |-> mapper[k]]
    /\ thr' = [thr EXCEPT ![t] = Idle]
    /\ UNCHANGED <<heap, len, overlapped, ncalls>>

\* The runtime's check of the map's writing flag: the program is ended.
RaceThrow(t) ==
    /\ thr[t].pc \in {"store", "drop"}
    /\ \E u \in Threads \ {t} : thr[u].pc \notin {"idle", "fatal"}
    /\ thr' = [u \in Threads |-> At("fatal", "", NilVal, Nil)]
    /\ UNCHANGED <<mapVars, overlapped, ncalls>>

RaceNext ==
    \/ \E t \in Threads, key \in Keys, value \in Values :
          RaceSetLookup(t, key, value) /\ UNCHANGED <<callVars, iterVars, curGone, twoVars, chanVars>>
    \/ \E t \in Threads :
          RaceSetPush(t) /\ UNCHANGED <<callVars, iterVars, curGone, twoVars, chanVars>>
    \/ \E t \in Threads :
          RaceSetStore(t) /\ UNCHANGED <<callVars, iterVars, curGone, twoVars, chanVars>>
    \/ \E t \in Threads :
          RaceSetWrite(t) /\ UNCHANGED <<callVars, iterVars, curGone, twoVars, chanVars>>
    \/ \E t \in Threads, key \in Keys :
          RaceDeleteLookup(t, key) /\ UNCHANGED <<callVars, iterVars, curGone, twoVars, chanVars>>
    \/ \E t \in Threads :
          RaceDeleteRemove(t) /\ UNCHANGED <<callVars, iterVars, curGone, twoVars, chanVars>>
    \/ \E t \in Threads :
          RaceDeleteDrop(t) /\ UNCHANGED <<callVars, iterVars, curGone, twoVars, chanVars>>
    \/ \E t \in Threads :
          RaceThrow(t) /\ UNCHANGED <<callVars, iterVars, curGone, twoVars, chanVars>>

SpecRace == Init /\ [][RaceNext]_vars

\* ------------------------------------------------------- channel iterator
\* Iter() of the earlier version of the package: a goroutine sends the
\* entries on a channel of capacity chbufSize and closes it.  The map is
\* filled as TestIterator fills it, then ranged over by a consumer that may
\* break out of its loop.

\* m.Set(strconv.Itoa(i), i), i the number of entries set so far.
ChanFill ==
    /\ cpc = "fill"
    /\ MapLen < MaxItems
    /\ SetAbsent(ToString(MapLen), MapLen) \/ SetUpdate(ToString(MapLen), MapLen)
    /\ UNCHANGED chanVars

\* ch := make(chan ElemVal, chbufSize); go func() {...}(); return ch
ChanIter ==
    /\ cpc = "fill"
    /\ cpc' = "range"
    /\ ppc' = "front"
    /\ chstart' = Traversal
    /\ UNCHANGED <<mapVars, ch, closed, pe, pnext, recvd>>

\* e := m.lister.Front()
ProdFront ==
    /\ ppc = "front"
    /\ pe' = ListFront(heap, len)
    /\ ppc' = "top"
    /\ UNCHANGED <<mapVars, ch, closed, pnext>>

\* e != nil, the loop's condition holding.
ProdTest ==
    /\ ppc = "top"
    /\ pe # Nil
    /\ ppc' = "send"
    /\ UNCHANGED <<mapVars, ch, closed, pe, pnext>>

\* Mutant of ProdSend: the send does not wait for room in the buffer.
ProdSendNoWait ==
    /\ ppc = "send"
    /\ ch' = Append(ch, <<heap[pe].Key, heap[pe].Value>>)
    /\ ppc' = "step"
    /\ UNCHANGED <<mapVars, closed, pe, pnext>>

\* ch <- *e.Value.(*ElemVal): blocks while the buffer is full.
ProdSend ==
    /\ ppc = "send"
    /\ Len(ch) < chbufSize
    /\ ch' = Append(ch, <<heap[pe].Key, heap[pe].Value>>)
    /\ ppc' = "step"
    /\ UNCHANGED <<mapVars, closed, pe, pnext>>

\* Mutant of ProdAdvance: e = e.Prev().
ProdAdvancePrev ==
    /\ ppc = "step"
    /\ pe' = IF heap[pe].list # NilList /\ heap[pe].prev # Root
             THEN heap[pe].prev ELSE Nil
    /\ ppc' = "top"
    /\ UNCHANGED <<mapVars, ch, closed, pnext>>

\* e = e.Next(), the loop's post statement.
ProdAdvance ==
    /\ ppc = "step"
    /\ pe' = ListElemNext(heap, pe)
    /\ ppc' = "top"
    /\ UNCHANGED <<mapVars, ch, closed, pnext>>

\* e == nil: close(ch), and the goroutine returns.
ProdClose ==
    /\ ppc = "top"
    /\ pe = Nil
    /\ closed' = TRUE
    /\ ppc' = "done"
    /\ UNCHANGED <<mapVars, ch, pe, pnext>>

\* for item := range ch: an item is received.
ChanRecv ==
    /\ cpc = "range"
    /\ ch # <<>>
    /\ recvd' = Append(recvd, Head(ch))
    /\ ch' = Tail(ch)
    /\ UNCHANGED <<mapVars, closed, ppc, pe, pnext, cpc, chstart>>

\* for item := range ch: the channel is closed and empty, the loop ends.
ChanEnd ==
    /\ cpc = "range"
    /\ ch = <<>>
    /\ closed
    /\ cpc' = "end"
    /\ UNCHANGED <<mapVars, prodVars, recvd, chstart>>

\* break: the consumer stops receiving.
ChanBreak ==
    /\ cpc = "range"
    /\ cpc' = "gone"
    /\ UNCHANGED <<mapVars, prodVars, recvd, chstart>>

\* The variables the channel iterator's specifications leave.
notChanVars == <<callVars, iterVars, curGone, twoVars, raceVars>>

\* A step of the producer goroutine.
ProdRun ==
    \/ ProdFront /\ UNCHANGED <<cpc, recvd, chstart, notChanVars>>
    \/ ProdTest /\ UNCHANGED <<cpc, recvd, chstart, notChanVars>>
    \/ ProdSend /\ UNCHANGED <<cpc, recvd, chstart, notChanVars>>
    \/ ProdAdvance /\ UNCHANGED <<cpc, recvd, chstart, notChanVars>>
    \/ ProdClose /\ UNCHANGED <<cpc, recvd, chstart, notChanVars>>

\* A step of the consumer's range loop.
ConsRun ==
    \/ ChanRecv /\ UNCHANGED notChanVars
    \/ ChanEnd /\ UNCHANGED notChanVars

ChanNext ==
    \/ ChanFill /\ UNCHANGED notChanVars
    \/ ChanIter /\ UNCHANGED notChanVars
    \/ ProdRun
    \/ ConsRun
    \/ ChanBreak /\ UNCHANGED notChanVars

\* The scheduler runs a goroutine that can run.
SpecChan ==
    Init /\ [][ChanNext]_vars /\ WF_vars(ProdRun) /\ WF_vars(ConsRun)

\* ------------------------------------- channel iterator, next captured
\* The deprecated Iter() kept in src/orderedmap.go, whose goroutine
\* assigns next = e.Next() before it sends e, and a consumer that deletes
\* the key of every item it receives.

\* e != nil; next = e.Next()
ProdCapture ==
    /\ ppc = "top"
    /\ pe # Nil
    /\ pnext' = ListElemNext(heap, pe)
    /\ ppc' = "send"
    /\ UNCHANGED <<mapVars, ch, closed, pe>>

\* Mutant of ProdStep: e = e.Next(), read after the send.
ProdStepRereads ==
    /\ ppc = "step"
    /\ pe' = ListElemNext(heap, pe)
    /\ ppc' = "top"
    /\ UNCHANGED <<mapVars, ch, closed, pnext>>

\* e = next, the loop's post statement.
ProdStep ==
    /\ ppc = "step"
    /\ pe' = pnext
    /\ ppc' = "top"
    /\ UNCHANGED <<mapVars, ch, closed, pnext>>

\* for item := range ch: an item is received, the body begins.
ChanTake ==
    /\ cpc = "range"
    /\ ch # <<>>
    /\ recvd' = Append(recvd, Head(ch))
    /\ ch' = Tail(ch)
    /\ cpc' = "del"
    /\ UNCHANGED <<mapVars, closed, ppc, pe, pnext, chstart>>

\* m.Delete(item.Key) in the body.
ChanDelete ==
    /\ cpc = "del"
    /\ DeleteCode(recvd[Len(recvd)][1])
    /\ cpc' = "range"
    /\ UNCHANGED <<prodVars, recvd, chstart>>

\* A step of the producer goroutine.
ProdRunCaptured ==
    \/ ProdFront /\ UNCHANGED <<cpc, recvd, chstart, notChanVars>>
    \/ ProdCapture /\ UNCHANGED <<cpc, recvd, chstart, notChanVars>>
    \/ ProdSend /\ UNCHANGED <<cpc, recvd, chstart, notChanVars>>
    \/ ProdStep /\ UNCHANGED <<cpc, recvd, chstart, notChanVars>>
    \/ ProdClose /\ UNCHANGED <<cpc, recvd, chstart, notChanVars>>

\* A step of the consumer's range loop.
ConsRunDeleting ==
    \/ ChanTake /\ UNCHANGED notChanVars
    \/ ChanDelete /\ UNCHANGED notChanVars
    \/ ChanEnd /\ UNCHANGED notChanVars

ChanDelNext ==
    \/ ChanFill /\ UNCHANGED notChanVars
    \/ ChanIter /\ UNCHANGED notChanVars
    \/ ProdRunCaptured
    \/ ConsRunDeleting

SpecChanDel ==
    /\ Init /\ [][ChanDelNext]_vars
    /\ WF_vars(ProdRunCaptured) /\ WF_vars(ConsRunDeleting)

\* ----------------------------------------------------------- observations
\* The element pointers on the list's ring, from root.next round to root.
RECURSIVE RingFrom(_, _, _)
RingFrom(h, p, fuel) ==
    IF p = Root \/ p = Nil \/ fuel = 0 THEN <<>>
    ELSE <<p>> \o RingFrom(h, h[p].next, fuel - 1)

ListElems(h) == RingFrom(h, h[Root].next, Cardinality(DOMAIN h))

\* The keys a traversal yields, in order.
RECURSIVE KeysOf(_)
KeysOf(pairs) ==
    IF pairs = <<>> THEN <<>>
    ELSE <<Head(pairs)[1]>> \o KeysOf(Tail(pairs))
TraversalKeys == KeysOf(Traversal)

\* The same observations made after a step.
TraversalAfter == TraversalIn(heap', len')
MapLenAfter == Len_(heap', len')
MapGetAfter(key) == GetIn(mapper', heap', key)

\* A traversal's pairs without those of key k.
Without(pairs, k) == SelectSeq(pairs, LAMBDA p : p[1] # k)

\* Some element holding key k was removed from the list earlier.
WasDeleted(k) ==
    \E p \in DOMAIN heap \ {Root} : heap[p].Key = k /\ heap[p].list = NilList

\* s is the beginning of t.
IsPrefix(s, t) == Len(s) <= Len(t) /\ s = SubSeq(t, 1, Len(s))

\* The producer goroutine waits in its send, the buffer full.
ProdBlocked == ppc = "send" /\ Len(ch) = chbufSize

\* The entries of chstart the consumer has not received.
Undelivered == Len(chstart) - Len(recvd)

\* ------------------------------------------------------------------ claims
\* C1: after any sequence of Set and Delete calls the index and the
\* sequence are in sync: the keys of mapper are the keys held by the
\* list's elements, no two elements hold the same key, and mapper[k] is
\* the element of the list whose Key is k.
IndexSequenceInSync ==
    LET ring == ListElems(heap)
    IN  /\ {heap[ring[i]].Key : i \in 1..Len(ring)} = DOMAIN mapper
        /\ \A i, j \in 1..Len(ring) :
              heap[ring[i]].Key = heap[ring[j]].Key => i = j
        /\ \A k \in DOMAIN mapper :
              /\ heap[mapper[k]].Key = k
              /\ \E i \in 1..Len(ring) : ring[i] = mapper[k]

\* C1 witness: two keys left after a Delete that removed a third.
InSyncAfterDelete ==
    /\ lastOp.op = "Delete" /\ lastOp.found
    /\ Cardinality(DOMAIN mapper) = 2
    /\ Len(ListElems(heap)) = 2

\* C2: Len() is the number of distinct keys Set and not Deleted since; a
\* repeated Set of a key counts once.
LenCountsPresentKeys == MapLen = Cardinality(Present)

\* C2 witness: one key left, Set twice, after another key came and went.
LenAfterRepeatedSet ==
    /\ lastOp.op = "Set" /\ lastOp.found
    /\ rewritten = {lastOp.key}
    /\ clock = 2
    /\ MapLen = 1

\* C3: the traversal First(), Next(), ... until nil yields exactly the
\* present keys, each once, oldest insertion first, each with the value Get
\* returns for it, in Len() steps.
TraversalIsInsertionOrder ==
    /\ Len(Traversal) = MapLen
    /\ TraversalKeys = OldestFirst(Present)
    /\ \A i \in 1..Len(Traversal) :
          MapGet(Traversal[i][1]) = <<Traversal[i][2], TRUE>>

\* C3 witness: c before a, after an older entry was deleted.
TraversalAfterChurn ==
    /\ Traversal = <<<<"c", "v2">>, <<"a", "v1">>>>
    /\ clock = 3

\* C4: Get of a present key returns the value of the latest Set of that key
\* with exist = true, and Get changes nothing of the map.
GetReturnsLatestSet ==
    /\ [](\A k \in Present : MapGet(k) = <<lastSet[k], TRUE>>)
    /\ [](lastOp.op = "Get" /\ lastOp.key \in Present
            => lastOp.found /\ lastOp.value = lastSet[lastOp.key])
    /\ [][lastOp'.op = "Get" => UNCHANGED mapVars]_vars

\* C4 witness: Get returned v2 for a key Set more than once.
GetAfterOverwrite ==
    /\ lastOp = Call("Get", "a", "v2", TRUE)
    /\ "a" \in rewritten

\* C5: Set of a present key changes that key's value only: the order of
\* iteration, Len() and every other key's value stay.
SetPresentChangesValueOnly ==
    [][\A k \in Keys :
         (lastOp'.op = "Set" /\ lastOp'.key = k /\ lastOp'.found)
         => /\ KeysOf(TraversalAfter) = TraversalKeys
            /\ MapLenAfter = MapLen
            /\ \A j \in Keys \ {k} : MapGetAfter(j) = MapGet(j)
            /\ MapGetAfter(k) = <<lastOp'.value, TRUE>>]_vars

\* C5 witness: a, b, c inserted, each updated, b last: still a, b, c.
OrderKeptAfterUpdates ==
    /\ TraversalKeys = <<"a", "b", "c">>
    /\ rewritten = {"a", "b", "c"}
    /\ lastOp.op = "Set" /\ lastOp.key = "b" /\ lastOp.found

\* C6: Delete of a present key removes that key and nothing else: Get then
\* misses it, Len() is one less, and the traversal is the previous one
\* without the key.
DeleteRemovesExactlyKey ==
    [][\A k \in Keys :
         (lastOp'.op = "Delete" /\ lastOp'.key = k /\ lastOp'.found)
         => /\ MapGetAfter(k) = <<NilVal, FALSE>>
            /\ MapLenAfter = MapLen - 1
            /\ TraversalAfter = Without(Traversal, k)
            /\ \A j \in Keys \ {k} : MapGetAfter(j) = MapGet(j)]_vars

\* C6 witness: a, b, c less b.
DeletedMiddle ==
    /\ lastOp = Call("Delete", "b", NilVal, TRUE)
    /\ TraversalKeys = <<"a", "c">>
    /\ MapLen = 2

\* C7: Delete of a key that is not present is possible and changes nothing:
\* not Len(), not the traversal, not what Get returns for any key.
DeleteMissingIsNoop ==
    /\ [](\A k \in Keys \ Present : ENABLED Delete(k))
    /\ [][\A k \in Keys :
            (lastOp'.op = "Delete" /\ lastOp'.key = k /\ ~lastOp'.found)
            => /\ MapLenAfter = MapLen
               /\ TraversalAfter = Traversal
               /\ \A j \in Keys : MapGetAfter(j) = MapGet(j)]_vars

\* C7 witness: a key deleted a second time, two others present.
DeletedTwice ==
    /\ lastOp.op = "Delete" /\ ~lastOp.found
    /\ WasDeleted(lastOp.key)
    /\ MapLen = 2

\* C8: Get of a key that is not present returns (nil, false), in every
\* reachable state, for a key never inserted as for one deleted.
GetMissingReturnsNilFalse ==
    /\ \A k \in Keys \ Present : MapGet(k) = <<NilVal, FALSE>>
    /\ (lastOp.op = "Get" /\ lastOp.key \notin Present
          => lastOp.value = NilVal /\ ~lastOp.found)

\* C8 witness: Get of a key that was inserted and then deleted.
GetAfterDelete ==
    /\ lastOp = Call("Get", "a", NilVal, FALSE)
    /\ WasDeleted("a")
    /\ MapLen = 1

\* s is t with some of its members left out, the order kept.
RECURSIVE IsSubseq(_, _)
IsSubseq(s, t) ==
    IF s = <<>> THEN TRUE
    ELSE IF t = <<>> THEN FALSE
    ELSE IF Head(s) = Head(t) THEN IsSubseq(Tail(s), Tail(t))
    ELSE IsSubseq(s, Tail(t))

\* The members of sequence s.
Range(s) == {s[i] : i \in 1..Len(s)}

\* What the running loop will still be positioned at if the map is left
\* alone: the walk from the captured next, or from e.Next().
Ahead ==
    WalkFrom(heap, IF pc = "held" THEN next ELSE ElementNext(cur),
             Cardinality(DOMAIN heap))

\* C9: the loop that captures next = e.Next() before it deletes the current
\* entry is positioned at every entry present when it began, each once, in
\* insertion order, ends, and leaves the map without the entries it
\* deleted: empty if it deleted each one.
DeleteWhileIteratingVisitsAll ==
    /\ (pc \in {"at", "held"} /\ ~otherDel)
          => /\ visited \o Ahead = start
             /\ visited[Len(visited)] = Pair(cur)
    /\ (pc = "done" /\ ~otherDel)
          => /\ visited = start
             /\ Traversal = SelectSeq(start, LAMBDA p : p[1] \notin dels)
             /\ (dels = Range(KeysOf(start)) => MapLen = 0 /\ MapFirst = NilElement)

\* C9 witness: a, b, c traversed, each deleted once next was captured.
DeletedAllWhileIterating ==
    /\ pc = "done" /\ ~otherDel
    /\ KeysOf(start) = <<"a", "b", "c">>
    /\ KeysOf(visited) = <<"a", "b", "c">>
    /\ dels = {"a", "b", "c"}
    /\ MapLen = 0

\* Once over, the loop was positioned at every entry that is left, at none
\* twice, in the order of insertion.
ReachesAllLeft ==
    /\ (pc = "done" => Range(TraversalKeys) \subseteq Range(KeysOf(visited)))
    /\ \A i, j \in 1..Len(visited) : visited[i][1] = visited[j][1] => i = j
    /\ IsSubseq(visited, start)

\* C10 as stated: with the loop positioned at e, next captured or not, a
\* Delete of any key other than e's leaves the loop reaching every entry
\* after e that is not deleted, each once, in order.
OtherDeletesAlwaysSafe == pc # "build" => ReachesAllLeft

\* C10 amended: the same, unless the entry deleted is the one of a next
\* already captured and not yet stepped to.
OtherDeletesSafeUnlessHeld == (pc # "build" /\ ~heldHit) => ReachesAllLeft

\* C10 witness: at a with b captured as next, c was deleted.
DeletedOtherWhileHeld ==
    /\ pc = "held" /\ otherDel /\ ~heldHit
    /\ cur.Key = "a" /\ next.Key = "b"
    /\ KeysOf(start) = <<"a", "b", "c">>
    /\ dels = {"c"}

\* C15: Set of an absent key, never inserted or deleted since, appends it:
\* the traversal is the previous one followed by the key, Len() is one
\* more, every other key keeps its value.  A key deleted and Set again is
\* last, not where it was.
SetAbsentAppendsAtTail ==
    [][\A k \in Keys :
         (lastOp'.op = "Set" /\ lastOp'.key = k /\ ~lastOp'.found)
         => /\ TraversalAfter = Append(Traversal, <<k, lastOp'.value>>)
            /\ MapLenAfter = MapLen + 1
            /\ \A j \in Keys \ {k} : MapGetAfter(j) = MapGet(j)]_vars

\* C15 witness: a was first, before b; deleted and Set again it follows b.
ReinsertedAtTail ==
    /\ lastOp = Call("Set", "a", "v2", FALSE)
    /\ heap[1].Key = "a" /\ heap[1].list = NilList
    /\ TraversalKeys = <<"b", "a">>

\* C16: First() is nil exactly when Len() is 0; otherwise its Key is the
\* oldest present key; Next() of the cursor of the last entry is nil.
FirstNilIffEmpty ==
    /\ (MapFirst = NilElement) <=> (MapLen = 0)
    /\ (MapLen # 0 /\ Present # {})
          => LET order == OldestFirst(Present)
                 last  == order[Len(order)]
             IN  /\ MapFirst.Key = order[1]
                 /\ last \in DOMAIN mapper
                 /\ ElementNext(MakeElement(heap, mapper[last])) = NilElement

\* C16 witness: the map is empty again after its last entry was deleted.
EmptiedByDelete ==
    /\ lastOp.op = "Delete" /\ lastOp.found
    /\ MapLen = 0
    /\ MapFirst = NilElement
    /\ clock = 2

\* C17: Next() called on a cursor whose entry was deleted returns nil,
\* though entries may be left: the call is always possible, yields no
\* entry, deleted or visited before, and leaves the map as it is.
NextOfDeletedIsNil ==
    /\ [](pc = "at" => ENABLED IterAdvance /\ ENABLED IterCapture)
    /\ [][(pc = "at" /\ curGone /\ (pc' # pc \/ visited' # visited))
            => /\ UNCHANGED mapVars
               /\ visited' = visited
               /\ \/ pc' = "done" /\ cur' = NilElement
                  \/ pc' = "held" /\ next' = NilElement]_vars

\* C17 witness: a deleted at a, next not captured: the loop ended with b
\* and c left.
EndedEarlyAfterMisuse ==
    /\ pc = "done" /\ cur = NilElement /\ next = NilElement
    /\ KeysOf(start) = <<"a", "b", "c">>
    /\ KeysOf(visited) = <<"a">>
    /\ dels = {"a"}
    /\ TraversalKeys = <<"b", "c">>

\* C18: a cursor keeps the key and value its entry had when First() or
\* Next() made it: a later Set changes what Get and new cursors report,
\* not the cursor; an assignment to the cursor's Value changes the cursor,
\* not the map.
CursorIsSnapshot ==
    /\ [](pc = "at" => visited[Len(visited)][1] = cur.Key)
    /\ [][(pc = "at" /\ mapVars' # mapVars)
            => /\ cur' = cur
               /\ \A k \in Keys :
                     MapGetAfter(k) # MapGet(k) =>
                       /\ MapGetAfter(k)[2]
                       /\ MakeElement(heap', mapper'[k]).Value = MapGetAfter(k)[1]
                       /\ \E i \in 1..Len(TraversalAfter) :
                             TraversalAfter[i] = <<k, MapGetAfter(k)[1]>>]_vars
    /\ [][(pc = "at" /\ pc' = "at" /\ cur'.elem = cur.elem /\ cur' # cur)
            => /\ UNCHANGED mapVars
               /\ cur'.Key = cur.Key]_vars

\* C18 witness: the cursor of a still shows v1, Get returns the v2 Set
\* since.
CursorKeepsOldValue ==
    /\ pc = "at"
    /\ visited[Len(visited)] = <<"a", "v1">>
    /\ "a" \in DOMAIN mapper
    /\ cur = [elem |-> mapper["a"], Key |-> "a", Value |-> "v1"]
    /\ MapGet("a") = <<"v2", TRUE>>

\* C11: traversals are independent: First() gives a cursor at the head;
\* Next() on one cursor changes neither the map nor any other cursor; each
\* of two interleaved loops is at every step positioned on the entries of
\* the map in insertion order, and has yielded all of them when it ends.
TraversalsIndependent ==
    /\ [](\A c \in Loops :
            /\ tpc[c] # "idle" =>
                  /\ Len(seen[c]) <= Len(Traversal)
                  /\ seen[c] = SubSeq(Traversal, 1, Len(seen[c]))
            /\ tpc[c] = "run" => Pair(curs[c]) = seen[c][Len(seen[c])]
            /\ tpc[c] = "done" => curs[c] = NilElement /\ seen[c] = Traversal)
    /\ [][\A c \in Loops :
            (Len(seen'[c]) = 1 /\ seen'[c] # seen[c]) => curs'[c] = MapFirst]_vars
    /\ [][\A c \in Loops :
            (tpc[c] # "idle" /\ <<curs[c], seen[c], tpc[c]>>'
                                  # <<curs[c], seen[c], tpc[c]>>)
              => /\ UNCHANGED mapVars
                 /\ MapLenAfter = MapLen /\ TraversalAfter = Traversal
                 /\ \A d \in Loops \ {c} :
                       <<curs[d], seen[d], tpc[d]>>'
                         = <<curs[d], seen[d], tpc[d]>>]_vars

\* C11 witness: loop 1 has ended having yielded the three entries while
\* loop 2, started meanwhile, is at the second.
OneDoneOtherMidway ==
    /\ tpc[1] = "done" /\ tpc[2] = "run"
    /\ KeysOf(seen[1]) = <<"a", "b", "c">>
    /\ seen[1] = Traversal
    /\ KeysOf(seen[2]) = <<"a", "b">>
    /\ curs[2].Key = "b"

\* C12: calls of Set and Delete by two threads that never overlap (each
\* runs alone, as under a lock) leave the index and the sequence in sync
\* and Len() the number of distinct keys, whenever no call is running;
\* the runtime's fatal error and any other state come of overlapping calls
\* only.
SerialisedCallsKeepSync ==
    (~overlapped /\ \A t \in Threads : thr[t].pc \in {"idle", "fatal"})
      => /\ IndexSequenceInSync
         /\ MapLen = Cardinality(DOMAIN mapper)
         /\ MapLen = Len(Traversal)
         /\ \A t \in Threads : thr[t].pc = "idle"

\* C12 witness: two overlapping Sets of the absent key a are over: the
\* list holds two elements of key a, Len() is 2 for one distinct key.
TwoNodesForOneKey ==
    /\ overlapped
    /\ \A t \in Threads : thr[t].pc = "idle"
    /\ ncalls = 2
    /\ DOMAIN mapper = {"a"}
    /\ TraversalKeys = <<"a", "a">>
    /\ MapLen = 2
    /\ ~IndexSequenceInSync

\* C13: when the consumer stops receiving with more entries undelivered
\* than the channel's buffer holds, the producer never closes the channel
\* and never terminates: it comes to wait in its send and stays there.
AbandonedProducerBlocksForever ==
    /\ []((cpc = "gone" /\ Undelivered > chbufSize)
            => (~closed /\ ppc # "done"))
    /\ (cpc = "gone" /\ Undelivered > chbufSize) ~> []ProdBlocked

\* C13 witness: 34 entries, the consumer gone after one: the buffer holds
\* the next 32 and the producer waits to send the last.
BlockedOnLastEntry ==
    /\ cpc = "gone"
    /\ Len(chstart) = 34 /\ Len(recvd) = 1
    /\ ProdBlocked
    /\ heap[pe].Key = "33"
    /\ ~closed

\* C14: over a map left alone, the consumer's range loop receives the
\* entries in insertion order; unless it breaks, the loop ends, having
\* received exactly Len() items, key i with value i, the channel closed
\* and the producer terminated.
IterDeliversAllInOrder ==
    /\ [](ppc # "none" => chstart = Traversal /\ IsPrefix(recvd \o ch, chstart))
    /\ [](cpc = "end" =>
            /\ recvd = chstart
            /\ Len(recvd) = MapLen
            /\ \A i \in 1..Len(recvd) : recvd[i] = <<ToString(i - 1), i - 1>>
            /\ \A i \in 1..Len(recvd) : MapGet(recvd[i][1]) = <<recvd[i][2], TRUE>>
            /\ closed /\ ppc = "done")
    /\ (cpc = "range") ~> (cpc \in {"gone", "end"})

\* C14 witness: the loop over 34 entries, more than the buffer holds, has
\* ended.
RangedOverAllEntries ==
    /\ cpc = "end"
    /\ MapLen = 34
    /\ Len(recvd) = 34
    /\ recvd[34] = <<"33", 33>>
    /\ closed

\* C19: with next captured before the send, a consumer deleting the key
\* of each item it receives still receives, in every interleaving, every
\* entry present when Iter() was called, once each and in insertion order;
\* the channel is then closed and the loop ends.
CapturedIterSurvivesDeletes ==
    /\ [](ppc # "none" => IsPrefix(recvd \o ch, chstart))
    /\ [](cpc = "end" => recvd = chstart /\ closed /\ ppc = "done" /\ MapLen = 0)
    /\ [](closed => Len(recvd) + Len(ch) = Len(chstart))
    /\ (cpc \in {"range", "del"}) ~> (cpc = "end")

\* C19 witness: the loop over 34 entries has ended with all of them
\* received and deleted.
ReceivedAllWhileDeleting ==
    /\ cpc = "end"
    /\ Len(chstart) = 34
    /\ recvd = chstart
    /\ WasDeleted("0") /\ WasDeleted("33")
    /\ MapLen = 0
    /\ closed

=============================================================================
